---- MODULE Spec2Model ----
(***************************************************************************)
(* Model of the two batch scripts afrolid_analysis.py and                  *)
(* langdetect_analysis.py: clean_text, the per-row batch loop, the save /  *)
(* summary block and main.                                                 *)
(*                                                                         *)
(* A text is a sequence of one-character strings.  The regular expressions *)
(* of clean_text are modelled by what Python's re.sub does with them       *)
(* (leftmost, non-overlapping, greedy matches), each script with the       *)
(* pattern its own source line holds.                                      *)
(***************************************************************************)
EXTENDS Integers, Sequences, FiniteSets, TLC

(***************************************************************************)
(* Characters                                                              *)
(***************************************************************************)
Lower == {"a","b","c","d","e","f","g","h","i","j","k","l","m",
          "n","o","p","q","r","s","t","u","v","w","x","y","z"}
Upper == {"A","B","C","D","E","F","G","H","I","J","K","L","M",
          "N","O","P","Q","R","S","T","U","V","W","X","Y","Z"}
Digit == {"0","1","2","3","4","5","6","7","8","9"}
HexDigit == Digit \cup {"a","b","c","d","e","f","A","B","C","D","E","F"}

\* \w : letters, digits, underscore
WordChar == Lower \cup Upper \cup Digit \cup {"_"}
\* \s, and the characters str.strip() removes
Whitespace == {" ", "\t", "\n", "\r", "\f"}
\* the range $-_ of the URL pattern: code points 36 .. 95
RangeDollarUnderscore ==
    {"$","%","&","'","(",")","*","+",",","-",".","/",":",";","<","=",">","?","@",
     "[","\\","]","^","_"} \cup Digit \cup Upper

\* pd.isna(text): the missing cell, a value no text equals
NaN == <<"NaN">>

(***************************************************************************)
(* Helpers on texts                                                        *)
(***************************************************************************)
At(s, i) == IF i >= 1 /\ i <= Len(s) THEN s[i] ELSE ""

Drop(s, n) == IF n >= Len(s) THEN <<>> ELSE SubSeq(s, n + 1, Len(s))

\* whether the literal lit occurs in s at position i
LitAt(s, i, lit) ==
    /\ i >= 1
    /\ i + Len(lit) - 1 <= Len(s)
    /\ \A k \in 1..Len(lit) : s[i + k - 1] = lit[k]

RECURSIVE LStrip(_)
LStrip(s) ==
    IF s # <<>> /\ Head(s) \in Whitespace THEN LStrip(Tail(s)) ELSE s

RECURSIVE RStrip(_)
RStrip(s) ==
    IF s # <<>> /\ s[Len(s)] \in Whitespace
    THEN RStrip(SubSeq(s, 1, Len(s) - 1)) ELSE s

\* str.strip()
Strip(s) == RStrip(LStrip(s))

(***************************************************************************)
(* The URL pattern, the same in both scripts:                              *)
(*   http[s]?://(?:[a-zA-Z]|[0-9]|[$-_@.&+]|[!*\\(\\),]|(?:%HH))+          *)
(***************************************************************************)
\* length of the one repetition of the group matched at position i, 0 if none
UrlTokenLen(s, i) ==
    LET c == At(s, i) IN
    IF c \in Lower \cup Upper THEN 1
    ELSE IF c \in Digit THEN 1
    ELSE IF c \in RangeDollarUnderscore \cup {"@", ".", "&", "+"} THEN 1
    ELSE IF c \in {"!", "*", "\\", "(", ")", ","} THEN 1
    ELSE IF c = "%" /\ At(s, i + 1) \in HexDigit /\ At(s, i + 2) \in HexDigit THEN 3
    ELSE 0

\* length of the greedy repetition (...)+ from position i
RECURSIVE UrlRunLen(_, _)
UrlRunLen(s, i) ==
    LET n == UrlTokenLen(s, i) IN
    IF n = 0 THEN 0 ELSE n + UrlRunLen(s, i + n)

\* length of the match of the URL pattern starting at i, 0 if none
UrlMatchLen(s, i) ==
    IF ~LitAt(s, i, <<"h","t","t","p">>) THEN 0
    ELSE LET j == IF At(s, i + 4) = "s" THEN i + 5 ELSE i + 4
             run == UrlRunLen(s, j + 3)
         IN  IF LitAt(s, j, <<":","/","/">>) /\ run >= 1
             THEN (j + 3 - i) + run ELSE 0

\* whether s holds a match of the URL pattern
HasUrl(s) == \E i \in 1..Len(s) : UrlMatchLen(s, i) > 0

\* re.sub(URL, '', s)
RECURSIVE RemoveUrls(_)
RemoveUrls(s) ==
    IF s = <<>> THEN <<>>
    ELSE LET n == UrlMatchLen(s, 1) IN
         IF n > 0 THEN RemoveUrls(Drop(s, n))
         ELSE <<Head(s)>> \o RemoveUrls(Tail(s))

(***************************************************************************)
(* afrolid_analysis.py: the filter and whitespace patterns                 *)
(***************************************************************************)
\* [\w\s\.\,\!\?\;\:\-\(\)\[\]\{\}]: the characters the filter keeps
AllowedChar(c) ==
    c \in WordChar \cup Whitespace
          \cup {".", ",", "!", "?", ";", ":", "-", "(", ")", "[", "]", "{", "}"}

\* re.sub(r'[^\w\s...]', '', s)
RemoveSpecialAfrolid(s) == SelectSeq(s, AllowedChar)

\* re.sub(r'\s+', ' ', s)
RECURSIVE CollapseWsAfrolid(_)
CollapseWsAfrolid(s) ==
    IF s = <<>> THEN <<>>
    ELSE IF Head(s) \in Whitespace
         THEN <<" ">> \o CollapseWsAfrolid(LStrip(s))
         ELSE <<Head(s)>> \o CollapseWsAfrolid(Tail(s))

(***************************************************************************)
(* langdetect_analysis.py: the same two lines, written with doubled        *)
(* backslashes inside raw strings.  The filter pattern is then the class   *)
(* [^\\w\\s\\.\\,\\!\\?\\;\\:\\-\\(\\)\\[\\] (closed by its first bare ])  *)
(* followed by the literal text \{\}] and the whitespace pattern is a      *)
(* literal backslash followed by one or more letters s.                    *)
(***************************************************************************)
LangdetectClassExcluded ==
    {"\\", "w", "s", ".", ",", "!", "?", ";", ":", "(", ")", "["}

LangdetectFilterTail == <<"\\", "{", "\\", "}", "]">>

\* length of the match of the langdetect filter pattern at the head of s
LangdetectFilterLen(s) ==
    IF s # <<>> /\ Head(s) \notin LangdetectClassExcluded
               /\ LitAt(s, 2, LangdetectFilterTail)
    THEN 1 + Len(LangdetectFilterTail) ELSE 0

RECURSIVE RemoveSpecialLangdetect(_)
RemoveSpecialLangdetect(s) ==
    IF s = <<>> THEN <<>>
    ELSE LET n == LangdetectFilterLen(s) IN
         IF n > 0 THEN RemoveSpecialLangdetect(Drop(s, n))
         ELSE <<Head(s)>> \o RemoveSpecialLangdetect(Tail(s))

RECURSIVE RunOfS(_)
RunOfS(s) == IF s # <<>> /\ Head(s) = "s" THEN 1 + RunOfS(Tail(s)) ELSE 0

\* re.sub(r'\\s+', ' ', s)
RECURSIVE CollapseWsLangdetect(_)
CollapseWsLangdetect(s) ==
    IF s = <<>> THEN <<>>
    ELSE LET n == IF Head(s) = "\\" THEN RunOfS(Tail(s)) ELSE 0 IN
         IF n > 0 THEN <<" ">> \o CollapseWsLangdetect(Drop(s, n + 1))
         ELSE <<Head(s)>> \o CollapseWsLangdetect(Tail(s))

(***************************************************************************)
(* clean_text                                                              *)
(***************************************************************************)
RemoveSpecial(sc, s) ==
    IF sc = "afrolid" THEN RemoveSpecialAfrolid(s) ELSE RemoveSpecialLangdetect(s)

CollapseWs(sc, s) ==
    IF sc = "afrolid" THEN CollapseWsAfrolid(s) ELSE CollapseWsLangdetect(s)

clean_text(sc, text) ==
    IF text = NaN \/ text = <<>> THEN <<>>
    ELSE Strip(CollapseWs(sc, RemoveSpecial(sc, RemoveUrls(text))))

(***************************************************************************)
(* Bounds of the model and constants of the program                        *)
(***************************************************************************)
\* rows of an input table
MaxRows == 3
\* fragments concatenated into an input text of clean_text
MaxFrags == 4
\* records handed to the summary block
MaxRecords == 10

\* len(content.strip()) > 10
MinLength == 10
\* main analyses three datasets, one call after the other
NumDatasets == 3
\* langdetect: confidence_score = 1.0, in hundredths
LangdetectConfidence == 100

Scripts == {"afrolid", "langdetect"}

(***************************************************************************)
(* Inputs                                                                  *)
(***************************************************************************)
\* cells of the Text column; RowHelloWorld fills the tables of SpecSummary
RowHelloWorld == <<"H","e","l","l","o"," ","w","o","r","l","d">>
RowHelloWorl == <<" "," ","H","e","l","l","o"," ","w","o","r","l"," "," ">>
RowGoodMorning == <<"G","o","o","d"," "," ","m","o","r","n","i","n","g"," ","#","a","l","l">>
RowOnlyUrl == <<"h","t","t","p",":","/","/","a","b","c","d","e","f","g">>

RowSamples == {NaN, <<>>, RowHelloWorl, RowGoodMorning, RowOnlyUrl}

RECURSIVE TablesOfLen(_)
TablesOfLen(n) ==
    IF n = 0 THEN {<<>>}
    ELSE {<<r>> \o t : r \in RowSamples, t \in TablesOfLen(n - 1)}

\* what pd.read_csv may return: the tables of up to n rows
Tables(n) == UNION {TablesOfLen(k) : k \in 0..n}

\* result[0] of the AfroLID pipeline
Predictions == {[label |-> "yor", score |-> 93], [label |-> "kin", score |-> 71]}
\* what langdetect's detect may return
DetectLabels == {"en", "sw"}

\* pieces of the input texts of clean_text
Fragments ==
    { <<"h","t","t","p",":","/","/","a">>,
      <<"h","t","t","p",":","/">>,
      <<"/","a">>,
      <<"#","\\","{","\\","}","]">>,
      <<" ">>,
      <<"#">>,
      <<"\\","s">>,
      <<"s">>,
      <<"\t">>,
      <<"a","!">> }

RECURSIVE TextsOfLen(_)
TextsOfLen(n) ==
    IF n = 0 THEN {<<>>}
    ELSE {f \o t : f \in Fragments, t \in TextsOfLen(n - 1)}

\* the texts of up to n fragments
Texts(n) == UNION {TextsOfLen(k) : k \in 0..n}

\* labels of the records handed to the summary block
SummaryLabels == {"en", "yor"}

(***************************************************************************)
(* State                                                                   *)
(***************************************************************************)
VARIABLES
    script,           \* which of the two scripts runs
    pc,               \* where the run is
    dataset,          \* the call of main that is running or comes next
    df,               \* the table read by pd.read_csv
    idx,              \* the row of df the loop is at (1-based: idx+1 of the code)
    results_data,     \* the records appended so far
    console,          \* what the running call of analyze printed
    raised,           \* rows at which the oracle call raised
    written,          \* the rows the running call wrote with to_csv
    fatal,            \* datasets whose read_csv or pipeline() raised
    files,            \* datasets whose output file was written
    returned,         \* what each finished call of analyze returned
    language_counts,  \* value_counts() of the last summary
    percentage,       \* the percentages of the last summary, in tenths
    avg_confidence,   \* the mean of the last summary, <<sum, count>>
    text,             \* clean_text: the argument
    cleaned,          \* clean_text(text)
    recleaned         \* clean_text(clean_text(text))

vars == <<script, pc, dataset, df, idx, results_data, console, raised, written,
          fatal, files,
          returned, language_counts, percentage, avg_confidence,
          text, cleaned, recleaned>>

cleanVars == <<text, cleaned, recleaned>>
summaryVars == <<language_counts, percentage, avg_confidence>>

EmptyMap == [l \in {} |-> 0]

(***************************************************************************)
(* The batch loop: one row                                                 *)
(***************************************************************************)
\* content = row['Text'] if pd.notna(row['Text']) else ''
ContentOf(cell) == IF cell # NaN THEN cell ELSE <<>>

\* PassesFilter without the strip()
PassesFilterUntrimmed(content) == content # <<>> /\ Len(content) > MinLength

\* content and len(content.strip()) > 10
PassesFilter(content) == content # <<>> /\ Len(Strip(content)) > MinLength

\* the row reaches the oracle call
ReachesOracle(sc, cell) ==
    /\ PassesFilter(ContentOf(cell))
    /\ clean_text(sc, ContentOf(cell)) # <<>>

\* the dictionary appended for a row; row is the row it came from
NewRecord(cleaned_content, label, score, row) ==
    [content |-> cleaned_content, predicted_language |-> label,
     confidence_score |-> score, row |-> row]

\* AppendRecord inserting at the front
AppendRecordFront(rs, r) == <<r>> \o rs

\* results_data.append(record)
AppendRecord(rs, r) == Append(rs, r)

\* detect_language_langdetect returning None from its except branch
detect_language_langdetect_None(outcome) ==
    IF outcome = "raise" THEN "None" ELSE outcome

\* detect_language_langdetect: detect(text), or 'unknown' when detect raises
detect_language_langdetect(outcome) ==
    IF outcome = "raise" THEN "unknown" ELSE outcome

InLoop == pc = "loop" /\ idx <= Len(df)

\* the row fails the length test or cleans to nothing: nothing happens
SkipRow ==
    /\ InLoop
    /\ ~ReachesOracle(script, df[idx])
    /\ idx' = idx + 1
    /\ UNCHANGED <<script, pc, dataset, df, results_data, console, raised, written,
                   fatal, files, returned, summaryVars, cleanVars>>

\* afrolid(cleaned_content) returns a prediction
PredictOk ==
    /\ InLoop
    /\ script = "afrolid"
    /\ ReachesOracle(script, df[idx])
    /\ \E p \in Predictions :
          results_data' = AppendRecord(results_data,
              NewRecord(clean_text(script, ContentOf(df[idx])), p.label, p.score, idx))
    /\ console' = Append(console, [kind |-> "Post", post |-> idx])
    /\ idx' = idx + 1
    /\ UNCHANGED <<script, pc, dataset, df, raised, written, fatal, files,
                   returned, summaryVars, cleanVars>>

\* afrolid(cleaned_content) returns an empty list: prediction is None
PredictEmpty ==
    /\ InLoop
    /\ script = "afrolid"
    /\ ReachesOracle(script, df[idx])
    /\ idx' = idx + 1
    /\ UNCHANGED <<script, pc, dataset, df, results_data, console, raised, written,
                   fatal, files, returned, summaryVars, cleanVars>>

\* PredictRaise without the try/except: the exception leaves the loop
PredictRaiseUncaught ==
    /\ pc = "loop" /\ idx <= Len(df)
    /\ script = "afrolid"
    /\ ReachesOracle(script, df[idx])
    /\ raised' = raised \cup {idx}
    /\ pc' = "aborted"
    /\ UNCHANGED <<script, dataset, df, idx, results_data, console, written, fatal,
                   files, returned, summaryVars, cleanVars>>

\* afrolid(cleaned_content) raises: except Exception prints and continues
PredictRaise ==
    /\ InLoop
    /\ script = "afrolid"
    /\ ReachesOracle(script, df[idx])
    /\ raised' = raised \cup {idx}
    /\ console' = Append(console, [kind |-> "Error", post |-> idx])
    /\ idx' = idx + 1
    /\ UNCHANGED <<script, pc, dataset, df, results_data, written, fatal, files,
                   returned, summaryVars, cleanVars>>

\* langdetect: detect returns a label, or raises inside detect_language_langdetect
Detect ==
    /\ InLoop
    /\ script = "langdetect"
    /\ ReachesOracle(script, df[idx])
    /\ \E outcome \in DetectLabels \cup {"raise"} :
          /\ results_data' = AppendRecord(results_data,
                NewRecord(clean_text(script, ContentOf(df[idx])),
                          detect_language_langdetect(outcome),
                          LangdetectConfidence, idx))
          /\ raised' = IF outcome = "raise" THEN raised \cup {idx} ELSE raised
    /\ console' = Append(console, [kind |-> "Post", post |-> idx])
    /\ idx' = idx + 1
    /\ UNCHANGED <<script, pc, dataset, df, written, fatal, files, returned,
                   summaryVars, cleanVars>>

(***************************************************************************)
(* The summary block                                                       *)
(***************************************************************************)
\* results_df['predicted_language'].value_counts()
RECURSIVE value_counts(_)
value_counts(rs) ==
    IF rs = <<>> THEN EmptyMap
    ELSE LET rest == value_counts(Tail(rs))
             l == Head(rs).predicted_language
         IN  IF l \in DOMAIN rest THEN [rest EXCEPT ![l] = @ + 1]
             ELSE rest @@ (l :> 1)

\* f"{x:.1f}" of num/den, in tenths (ties to even)
Format1f(num, den) ==
    LET q == (num * 10) \div den
        r == (num * 10) % den
    IN  IF 2 * r > den THEN q + 1
        ELSE IF 2 * r < den THEN q
        ELSE IF q % 2 = 0 THEN q ELSE q + 1

\* Percentage cut to one decimal instead of rounded
PercentageTruncated(count, total) == (count * 1000) \div total

\* percentage = (count / len(results_data)) * 100, as printed
Percentage(count, total) == Format1f(count * 100, total)

RECURSIVE SumScores(_)
SumScores(rs) ==
    IF rs = <<>> THEN 0 ELSE Head(rs).confidence_score + SumScores(Tail(rs))

\* the summary of rs: the three summary variables
Summary(rs) ==
    LET counts == value_counts(rs) IN
    <<counts,
      [l \in DOMAIN counts |-> Percentage(counts[l], Len(rs))],
      <<SumScores(rs), Len(rs)>> >>

(***************************************************************************)
(* analyze_languages_with_afrolid / analyze_languages_with_langdetect      *)
(***************************************************************************)
\* main calls analyze for the next dataset; the call's locals are fresh
CallAnalyze ==
    /\ pc = "main"
    /\ dataset <= NumDatasets
    /\ pc' = "load"
    /\ df' = <<>>
    /\ idx' = 1
    /\ results_data' = <<>>
    /\ console' = <<>>
    /\ raised' = {}
    /\ written' = <<>>
    /\ language_counts' = EmptyMap
    /\ percentage' = EmptyMap
    /\ avg_confidence' = <<0, 0>>
    /\ UNCHANGED <<script, dataset, fatal, files, returned, cleanVars>>

\* df = pd.read_csv(csv_file) returns a table
ReadCsvOk ==
    /\ pc = "load"
    /\ \E t \in Tables(MaxRows) : df' = t
    /\ console' = Append(console, [kind |-> "Loaded", post |-> 0])
    /\ pc' = IF script = "afrolid" THEN "init" ELSE "loop"
    /\ UNCHANGED <<script, dataset, idx, results_data, raised, written, fatal, files,
                   returned, summaryVars, cleanVars>>

\* ReadCsvRaise caught per dataset: main goes on with the next one
ReadCsvRaiseCaught ==
    /\ pc = "load"
    /\ fatal' = fatal \cup {dataset}
    /\ returned' = [returned EXCEPT ![dataset] = "None"]
    /\ pc' = "main"
    /\ dataset' = dataset + 1
    /\ UNCHANGED <<script, df, idx, results_data, console, raised, written,
                   files, summaryVars, cleanVars>>

\* pd.read_csv raises: nothing in analyze or main catches it, the process ends
ReadCsvRaise ==
    /\ pc = "load"
    /\ fatal' = fatal \cup {dataset}
    /\ pc' = "aborted"
    /\ UNCHANGED <<script, dataset, df, idx, results_data, console, raised, written,
                   files, returned, summaryVars, cleanVars>>

\* afrolid = pipeline(...) returns
PipelineOk ==
    /\ pc = "init"
    /\ pc' = "loop"
    /\ console' = Append(console, [kind |-> "Initialized", post |-> 0])
    /\ UNCHANGED <<script, dataset, df, idx, results_data, raised, written, fatal,
                   files, returned, summaryVars, cleanVars>>

\* pipeline(...) raises: nothing catches it, the process ends
PipelineRaise ==
    /\ pc = "init"
    /\ fatal' = fatal \cup {dataset}
    /\ pc' = "aborted"
    /\ UNCHANGED <<script, dataset, df, idx, results_data, console, raised, written,
                   files, returned, summaryVars, cleanVars>>

LoopDone == pc = "loop" /\ idx > Len(df)

\* the lines the summary block prints
SummaryLines(sc, counts) ==
    <<[kind |-> "Saved", post |-> 0], [kind |-> "Summary", post |-> 0]>>
    \o (IF sc = "afrolid" THEN <<[kind |-> "Confidence", post |-> 0]>>
        ELSE IF "en" \in DOMAIN counts THEN <<[kind |-> "English", post |-> 0]>>
        ELSE <<>>)

\* if results_data: write the file, print the summary, return results_df
SaveResults ==
    /\ LoopDone
    /\ results_data # <<>>
    /\ written' = results_data
    /\ files' = files \cup {dataset}
    /\ language_counts' = Summary(results_data)[1]
    /\ percentage' = Summary(results_data)[2]
    /\ avg_confidence' = IF script = "afrolid" THEN Summary(results_data)[3]
                         ELSE avg_confidence
    /\ console' = console \o SummaryLines(script, Summary(results_data)[1])
    /\ returned' = [returned EXCEPT ![dataset] = "DataFrame"]
    /\ pc' = "main"
    /\ dataset' = dataset + 1
    /\ UNCHANGED <<script, df, idx, results_data, raised, fatal, cleanVars>>

\* NoValidContent writing the (empty) file all the same
NoValidContentWritesFile ==
    /\ pc = "loop" /\ idx > Len(df)
    /\ results_data = <<>>
    /\ files' = files \cup {dataset}
    /\ console' = Append(console, [kind |-> "NoValidContent", post |-> 0])
    /\ returned' = [returned EXCEPT ![dataset] = "None"]
    /\ pc' = "main"
    /\ dataset' = dataset + 1
    /\ UNCHANGED <<script, df, idx, results_data, raised, written, fatal,
                   summaryVars, cleanVars>>

\* else: print("No valid content found to analyze"); return None
NoValidContent ==
    /\ LoopDone
    /\ results_data = <<>>
    /\ console' = Append(console, [kind |-> "NoValidContent", post |-> 0])
    /\ returned' = [returned EXCEPT ![dataset] = "None"]
    /\ pc' = "main"
    /\ dataset' = dataset + 1
    /\ UNCHANGED <<script, df, idx, results_data, raised, written, fatal, files,
                   summaryVars, cleanVars>>

\* main: the three calls returned, "ALL ANALYSES COMPLETED!"
MainDone ==
    /\ pc = "main"
    /\ dataset > NumDatasets
    /\ pc' = "done"
    /\ UNCHANGED <<script, dataset, df, idx, results_data, console, raised, written,
                   fatal, files, returned, summaryVars, cleanVars>>

(***************************************************************************)
(* Specifications                                                          *)
(***************************************************************************)
InitCall ==
    /\ dataset = 1
    /\ idx = 1
    /\ results_data = <<>>
    /\ console = <<>>
    /\ raised = {}
    /\ written = <<>>
    /\ fatal = {}
    /\ files = {}
    /\ returned = [d \in 1..NumDatasets |-> "-"]
    /\ language_counts = EmptyMap
    /\ percentage = EmptyMap
    /\ avg_confidence = <<0, 0>>

InitClean ==
    /\ text = <<>>
    /\ cleaned = <<>>
    /\ recleaned = <<>>

\* a run of one of the two scripts
Init ==
    /\ script \in Scripts
    /\ pc = "main"
    /\ df = <<>>
    /\ InitCall
    /\ InitClean

Next ==
    \/ CallAnalyze
    \/ ReadCsvOk
    \/ ReadCsvRaise
    \/ PipelineOk
    \/ PipelineRaise
    \/ SkipRow
    \/ PredictOk
    \/ PredictEmpty
    \/ PredictRaise
    \/ Detect
    \/ SaveResults
    \/ NoValidContent
    \/ MainDone

Spec == Init /\ [][Next]_vars

\* clean_text applied to a text, and to its own result
CleanOnce ==
    /\ pc = "clean"
    /\ cleaned' = clean_text(script, text)
    /\ pc' = "cleaned"
    /\ UNCHANGED <<script, dataset, df, idx, results_data, console, raised, written,
                   fatal, files, returned, summaryVars, text, recleaned>>

CleanTwice ==
    /\ pc = "cleaned"
    /\ recleaned' = clean_text(script, cleaned)
    /\ pc' = "recleaned"
    /\ UNCHANGED <<script, dataset, df, idx, results_data, console, raised, written,
                   fatal, files, returned, summaryVars, text, cleaned>>

InitCleanText ==
    /\ script \in Scripts
    /\ pc = "clean"
    /\ df = <<>>
    /\ InitCall
    /\ text \in Texts(MaxFrags)
    /\ cleaned = <<>>
    /\ recleaned = <<>>

NextCleanText == CleanOnce \/ CleanTwice

SpecClean == InitCleanText /\ [][NextCleanText]_vars

\* one call of analyze on a table of rows that all reach the oracle, up to
\* MaxRecords of them, through the loop and the summary block
InitSummary ==
    /\ script \in Scripts
    /\ pc = "loop"
    /\ \E n \in 0..MaxRecords : df = [i \in 1..n |-> RowHelloWorld]
    /\ InitCall
    /\ InitClean

NextSummary ==
    \/ PredictOk
    \/ Detect
    \/ SaveResults
    \/ NoValidContent

SpecSummary == InitSummary /\ [][NextSummary]_vars

(***************************************************************************)
(* Properties                                                              *)
(***************************************************************************)
Records == 1..Len(results_data)

RecordsOfRow(i) == {k \in Records : results_data[k].row = i}

LinesOf(kind, i) ==
    {k \in 1..Len(console) : console[k] = [kind |-> kind, post |-> i]}

HasLine(kind) == LinesOf(kind, 0) # {}

\* the last call of analyze has returned
CallReturned == pc \in {"main", "done"} /\ dataset > 1

\* C1: every record of results_data comes from a row whose raw text is present, has
\* trimmed length > 10 and cleans to a non-empty text; a row whose text is missing,
\* empty or of trimmed length <= 10 has no record.
TheoremC1 ==
    /\ \A k \in Records :
          LET i == results_data[k].row IN
          /\ i \in 1..Len(df)
          /\ df[i] # NaN
          /\ df[i] # <<>>
          /\ Len(Strip(df[i])) > MinLength
          /\ clean_text(script, df[i]) # <<>>
          /\ results_data[k].content # <<>>
    /\ \A i \in 1..Len(df) :
          (df[i] = NaN \/ df[i] = <<>> \/ Len(Strip(df[i])) <= MinLength)
             => RecordsOfRow(i) = {}

\* a record exists, and the loop went past a row of trimmed length exactly 10 and
\* past a row that cleans to nothing
WitnessC1 ==
    /\ results_data # <<>>
    /\ \E i \in 1..Len(df) : i < idx /\ df[i] = RowHelloWorl
    /\ \E i \in 1..Len(df) : i < idx /\ df[i] = RowOnlyUrl

\* C2: in the afrolid loop a row whose oracle call raised has no record and exactly
\* one error line, the loop has moved past it and the run has not been aborted; no
\* other row has an error line; when every row of a non-empty table raised, the loop
\* has visited every row and results_data is empty.
TheoremC2 ==
    script = "afrolid" =>
      /\ \A i \in raised :
            /\ i < idx
            /\ RecordsOfRow(i) = {}
            /\ Cardinality(LinesOf("Error", i)) = 1
      /\ \A i \in (1..Len(df)) \ raised : LinesOf("Error", i) = {}
      /\ raised # {} => pc \in {"loop", "main", "done"}
      /\ (Len(df) > 0 /\ raised = 1..Len(df))
            => results_data = <<>> /\ idx = Len(df) + 1

\* the oracle raised on each row of a three-row table and the call returned None
WitnessC2 ==
    /\ script = "afrolid"
    /\ Len(df) = 3
    /\ raised = {1, 2, 3}
    /\ CallReturned
    /\ returned[dataset - 1] = "None"

\* C3, as claimed: in the langdetect loop a row on which detection raised has no
\* record.
ClaimC3 ==
    script = "langdetect" => \A i \in raised : RecordsOfRow(i) = {}

\* C3, amended: in the langdetect loop a row on which detection raised has exactly
\* one record, labelled 'unknown' with confidence 1.0 and the row's cleaned text, no
\* error line is printed and the loop has moved on to the next row.
TheoremC3 ==
    script = "langdetect" =>
      \A i \in raised :
         /\ i < idx
         /\ Cardinality(RecordsOfRow(i)) = 1
         /\ \A k \in RecordsOfRow(i) :
               /\ results_data[k].predicted_language = "unknown"
               /\ results_data[k].confidence_score = LangdetectConfidence
               /\ results_data[k].content = clean_text(script, df[i])
         /\ LinesOf("Error", i) = {}

\* detection raised on a row and a later row has a record too
WitnessC3 ==
    /\ script = "langdetect"
    /\ \E i \in raised : \E k \in Records : results_data[k].row > i

\* C4: results_data holds at most one record per row, at most len(df) records, in
\* the order of their rows, each with clean_text of its row's raw text as content;
\* what to_csv wrote is results_data.
TheoremC4 ==
    /\ Len(results_data) <= Len(df)
    /\ \A k \in Records :
          /\ results_data[k].row \in 1..Len(df)
          /\ results_data[k].content
                = clean_text(script, ContentOf(df[results_data[k].row]))
    /\ \A j, k \in Records : j < k => results_data[j].row < results_data[k].row
    /\ written = IF CallReturned /\ returned[dataset - 1] = "DataFrame"
                 THEN results_data ELSE <<>>

\* a file was written with two records or more, fewer than the table's rows, one of
\* them with a content that differs from the raw text
WitnessC4 ==
    /\ Len(written) >= 2
    /\ Len(written) < Len(df)
    /\ \E k \in 1..Len(written) : written[k].content # df[written[k].row]

\* C5, as claimed: when the process has ended, every dataset whose own load or
\* initialization did not fail has been processed.
ClaimC5 ==
    pc \in {"done", "aborted"} =>
       \A d \in (1..NumDatasets) \ fatal : returned[d] # "-"

\* C5, amended: when read_csv or pipeline() raises for a dataset, the process is
\* aborted there: that dataset and every dataset queued after it are never
\* processed (no return value, no file), and only the datasets before it finished.
TheoremC5 ==
    fatal # {} =>
      /\ pc = "aborted"
      /\ fatal = {dataset}
      /\ \A d \in dataset..NumDatasets : returned[d] = "-" /\ d \notin files
      /\ \A d \in 1..(dataset - 1) : returned[d] # "-"

\* the second dataset failed to load after the first one wrote its file
WitnessC5 ==
    /\ pc = "aborted"
    /\ dataset = 2
    /\ 1 \in files
    /\ returned[3] = "-"

\* C6: a dataset's file is written exactly when its call returned the data frame;
\* a call that ends with no record writes nothing, computes no summary, prints the
\* no-valid-content line and returns None; a call that ends with records writes
\* the file and prints the summary; nothing is written before the loop ends.
TheoremC6 ==
    /\ \A d \in 1..NumDatasets : d \in files <=> returned[d] = "DataFrame"
    /\ CallReturned =>
         IF results_data = <<>>
         THEN /\ returned[dataset - 1] = "None"
              /\ written = <<>>
              /\ language_counts = EmptyMap
              /\ percentage = EmptyMap
              /\ HasLine("NoValidContent")
              /\ ~HasLine("Saved")
              /\ ~HasLine("Summary")
         ELSE /\ returned[dataset - 1] = "DataFrame"
              /\ written = results_data
              /\ DOMAIN language_counts # {}
              /\ HasLine("Saved")
              /\ HasLine("Summary")
              /\ ~HasLine("NoValidContent")
    /\ pc \in {"load", "init", "loop", "aborted"} =>
         /\ written = <<>>
         /\ language_counts = EmptyMap
         /\ ~HasLine("Saved")
         /\ ~HasLine("Summary")

\* the first call ended without a record and returned None, the second wrote its file
WitnessC6 ==
    /\ returned[1] = "None"
    /\ returned[2] = "DataFrame"
    /\ pc = "main"
    /\ dataset = 3

\* C7, as claimed: clean_text(clean_text(T)) = clean_text(T).
ClaimC7 ==
    pc = "recleaned" => recleaned = cleaned

\* C8, as claimed: clean_text(T) holds only allowed characters, no two consecutive
\* whitespace characters and no leading or trailing whitespace.
ClaimC8 ==
    pc \in {"cleaned", "recleaned"} =>
      /\ \A k \in 1..Len(cleaned) : AllowedChar(cleaned[k])
      /\ \A k \in 1..(Len(cleaned) - 1) :
            ~(cleaned[k] \in Whitespace /\ cleaned[k + 1] \in Whitespace)
      /\ cleaned # <<>> =>
            cleaned[1] \notin Whitespace /\ cleaned[Len(cleaned)] \notin Whitespace

\* C9, as claimed: when T holds a URL, clean_text(T) holds no match of the URL
\* pattern.
ClaimC9 ==
    (pc \in {"cleaned", "recleaned"} /\ HasUrl(text)) => ~HasUrl(cleaned)

\* what C7, C8 and C9 say, of afrolid_analysis.py's clean_text alone
AfrolidCleanText ==
    script = "afrolid" => ClaimC7 /\ ClaimC8 /\ ClaimC9

CountOf(l) ==
    Cardinality({k \in Records : results_data[k].predicted_language = l})

RECURSIVE SumOver(_, _)
SumOver(f, S) ==
    IF S = {} THEN 0
    ELSE LET x == CHOOSE y \in S : TRUE IN f[x] + SumOver(f, S \ {x})

Abs(n) == IF n < 0 THEN -n ELSE n

\* C10: after the summary of a non-empty results_data, language_counts holds, for
\* each label of the records and no other, the number of records with that label;
\* the counts sum to the number of records; each percentage is count/total*100 to
\* one decimal; a label that all records carry is at 100.0, and counts 7 and 3 of
\* 10 are at 70.0 and 30.0.
TheoremC10 ==
    (CallReturned /\ results_data # <<>>) =>
      LET total == Len(results_data) IN
      /\ DOMAIN language_counts
            = {results_data[k].predicted_language : k \in Records}
      /\ DOMAIN percentage = DOMAIN language_counts
      /\ SumOver(language_counts, DOMAIN language_counts) = total
      /\ \A l \in DOMAIN language_counts :
            /\ language_counts[l] = CountOf(l)
            /\ 2 * Abs(percentage[l] * total - 1000 * CountOf(l)) <= total
            /\ CountOf(l) = total => percentage[l] = 1000
            /\ (total = 10 /\ CountOf(l) = 7) => percentage[l] = 700
            /\ (total = 10 /\ CountOf(l) = 3) => percentage[l] = 300

\* ten records, seven with one label and three with another, were summarised
WitnessC10 ==
    /\ CallReturned
    /\ Len(results_data) = 10
    /\ \E a, b \in DOMAIN language_counts :
          /\ language_counts[a] = 7 /\ percentage[a] = 700
          /\ language_counts[b] = 3 /\ percentage[b] = 300

====
